---- MODULE Spec2Model ----
(***************************************************************************)
(* whisper-stream: the chunk-windowing and boundary-reconciliation loop of *)
(* whisperstream/stream.py (atranscribe_streaming), as a state machine.    *)
(*                                                                         *)
(* Times are whole seconds.  Texts are sequences of one-character strings. *)
(* The async generator is modelled by its position (pc): it runs only when *)
(* the consumer asks for the next element, and it is suspended at every    *)
(* yield and at every awaited call (duration probe, slice + transcription).*)
(***************************************************************************)
EXTENDS Integers, Sequences, FiniteSets, TLC

----------------------------------------------------------------------------
(* Bounds of the model *)

\* most segments in one recognition result of the timing-rich service
MaxSegments == 3
\* most segments in one recognition result of the text-rich service
MaxTextSegments == 2
\* longest probed audio, in base chunks of 30 s
MaxAudioChunks == 4
\* the consumer stops pulling once the chunk index has reached this value
MaxChunkIndex == 4

----------------------------------------------------------------------------
(* Program constants and tables *)

OPENAI_WHISPER_MODEL_CHUNK_SIZE_SECONDS == 30

\* values of the `language` argument: None, two supported Lang objects and
\* one valid ISO 639 language that Whisper does not support (Latin)
NoLang == "None"
SUPPORTED_LANGUAGES == {"en", "fr"}
LanguageArgs == {NoLang, "fr", "la"}

\* _NAME_TO_LANG lookup after name.capitalize(); "?" stands for KeyError
NameCapitalize(name) ==
    CASE name \in {"english", "English", "ENGLISH"} -> "English"
      [] name \in {"french", "French", "FRENCH"} -> "French"
      [] name = "" -> ""
      [] OTHER -> "Klingon"

NAME_TO_LANG(capitalized) ==
    CASE capitalized = "English" -> "en"
      [] capitalized = "French" -> "fr"
      [] OTHER -> "?"

\* get_lang_from_name: "!" stands for UnsupportedLanguageError
get_lang_from_name(name) ==
    IF name = "" THEN "!"
    ELSE IF NAME_TO_LANG(NameCapitalize(name)) = "?" THEN "!"
    ELSE NAME_TO_LANG(NameCapitalize(name))

get_punctuation_prompt_for_lang(lang) ==
    CASE lang = "en" ->
           <<"W", "e", "l", "l", ",", " ", "w", "h", "a", "t", " ", "d", "i",
             "d", " ", "I", " ", "w", "a", "n", "t", " ", "t", "o", " ", "s",
             "a", "y", "?", " ", "L", "e", "t", "'", "s", " ", "s", "t", "a",
             "r", "t", ".">>
      [] lang = "fr" ->
           <<"E", "h", " ", "b", "i", "e", "n", ",", " ", "q", "u", "e", " ",
             "v", "o", "u", "l", "a", "i", "s", "-", "j", "e", " ", "d", "i",
             "r", "e", "?", " ", "C", "o", "m", "m", "e", "n", "ç", "o", "n",
             "s", ".">>

----------------------------------------------------------------------------
(* Characters and texts *)

UpperChars == {"A", "B", "C", "E", "I", "L", "W"}
SpaceChars == {" "}
PunctuationMarks == {"!", "(", ")", ",", ".", ":", ";", "?"}

\* str.upper() on the characters the model's texts are made of
Upper(c) ==
    CASE c = "a" -> "A"
      [] c = "b" -> "B"
      [] OTHER -> c

RECURSIVE lstrip(_)
lstrip(text) ==
    IF text # <<>> /\ Head(text) \in SpaceChars THEN lstrip(Tail(text))
    ELSE text

\* _capitalize: text.lstrip(), then text[:1].upper() + text[1:]
Capitalize(text) ==
    LET t == lstrip(text)
    IN  IF t = <<>> THEN <<>> ELSE <<Upper(Head(t))>> \o Tail(t)

\* mutant: only the punctuation marks are looked for
IsPunctuationPresentMarksOnly(text) ==
    IF ~ \E i \in 1..Len(text) : text[i] \in PunctuationMarks THEN FALSE
    ELSE TRUE

is_punctuation_present(text) ==
    IF ~ \E i \in 1..Len(text) : text[i] \in UpperChars THEN FALSE
    ELSE IF ~ \E i \in 1..Len(text) : text[i] \in PunctuationMarks THEN FALSE
    ELSE TRUE

RECURSIVE JoinTexts(_)
JoinTexts(segments) ==
    IF segments = <<>> THEN <<>>
    ELSE Head(segments).text \o JoinTexts(Tail(segments))

----------------------------------------------------------------------------
(* Window planning *)

ChunkPolicies == {"default", "constant"}

\* mutant: the size starts to grow one index late
DefaultChunkSizeGrowsLate(index) ==
    LET factor == IF index <= 2 THEN 1 ELSE index
    IN  OPENAI_WHISPER_MODEL_CHUNK_SIZE_SECONDS * factor

\* lines 35-43
default_chunk_size_fn(index) ==
    LET factor == IF index < 2 THEN 1 ELSE index
    IN  OPENAI_WHISPER_MODEL_CHUNK_SIZE_SECONDS * factor

\* the `chunk_size_fn` argument: the default policy, or the constant policy
\* that the docstring recommends for fastest streaming
ChunkSize(policy, index) ==
    IF policy = "default" THEN default_chunk_size_fn(index)
    ELSE OPENAI_WHISPER_MODEL_CHUNK_SIZE_SECONDS

\* mutant: the clamp also fires when exactly one more chunk remains
GetEndClampsOnEqual(policy, duration, start_, index) ==
    LET chunk_size == ChunkSize(policy, index)
        end_ == start_ + chunk_size
    IN  IF (duration - end_) <= chunk_size THEN duration ELSE end_

\* mutant: the end is only cut at the duration, a short tail is not merged
GetEndCutsOnly(policy, duration, start_, index) ==
    LET end_ == start_ + ChunkSize(policy, index)
    IN  IF end_ > duration THEN duration ELSE end_

_get_end(policy, duration, start_, index) ==
    LET chunk_size == ChunkSize(policy, index)
        end_ == start_ + chunk_size
    IN  IF (duration - end_) < chunk_size THEN duration ELSE end_

----------------------------------------------------------------------------
(* Recognition results returned by the injected transcription function *)

\* a Transcription: language name, full text, segments relative to the slice
Segment(seek, start_, end_, text) ==
    [seek |-> seek, start |-> start_, end |-> end_, text |-> text]

NoResult == [language |-> "-", text |-> <<>>, segments |-> <<>>]

\* timestamps a service reports for a slice of the given length: the slice
\* start, its middle, its end, and a point past its end
GridTime(length, k) ==
    CASE k = 0 -> 0
      [] k = 1 -> length \div 2
      [] k = 2 -> length
      [] OTHER -> length + (length \div 2)

\* ordered segments: start <= end within a segment, end <= next start
OrderedShapes(n) ==
    {f \in [1..(2 * n) -> 0..3] : \A i \in 1..(2 * n - 1) : f[i] <= f[i + 1]}

ShapesUpTo(maxn) == UNION {OrderedShapes(n) : n \in 0..maxn}

TimingShapes == ShapesUpTo(MaxSegments)

\* the timing-rich service: every ordered segmentation on the grid, of an
\* audio without words (empty texts)
TimingResults(length) ==
    {LET segs == [i \in 1..(Len(f) \div 2) |->
                    Segment(0, GridTime(length, f[2 * i - 1]),
                            GridTime(length, f[2 * i]), <<>>)]
     IN  [language |-> "english", text |-> JoinTexts(segs), segments |-> segs]
     : f \in TimingShapes}

ReportedNames == {"english", "french", ""}
Texts == {<<>>, <<" ", "a">>, <<"A">>, <<"a", ".">>, <<" ", "a", ".", "B">>}
SegmentTexts == {<<>>, <<" ", "a">>}

TextShapes == UNION {[1..n -> SegmentTexts] : n \in 0..MaxTextSegments}

\* the text-rich service: evenly spaced segments strictly inside the slice,
\* any reported language, any full text, any segment texts
TextResults(length) ==
    {[language |-> l, text |-> t,
      segments |-> [i \in 1..Len(st) |->
                      Segment(0, (i - 1) * (length \div (MaxTextSegments + 2)),
                              i * (length \div (MaxTextSegments + 2)), st[i])]]
     : l \in ReportedNames, t \in Texts, st \in TextShapes}

Results(fn, length) ==
    IF fn = "timing" THEN TimingResults(length) ELSE TextResults(length)

----------------------------------------------------------------------------
(* The loop body: rebasing, boundary trimming, prompt update *)

Min(a, b) == IF a < b THEN a ELSE b
Max(a, b) == IF a > b THEN a ELSE b
Last(s) == s[Len(s)]
DropLast(s) == SubSeq(s, 1, Len(s) - 1)

Rebase(segments, start_) ==
    [i \in 1..Len(segments) |->
        Segment(segments[i].seek + start_, segments[i].start + start_,
                segments[i].end + start_, segments[i].text)]

\* for _i in range(max_segments_to_skip): drop the last segment, stop as
\* soon as the new last segment ends before the window end
RECURSIVE SkipSegments(_, _, _, _)
SkipSegments(segments, end_, i, max_segments_to_skip) ==
    IF i = max_segments_to_skip THEN segments
    ELSE LET rest == DropLast(segments)
         IN  IF Last(rest).end < end_ THEN rest
             ELSE SkipSegments(rest, end_, i + 1, max_segments_to_skip)

\* mutant: a single segment moves the cursor to its own end
TrimSingleToSegmentEnd(res, end_) ==
    IF Len(res.segments) = 0 THEN [r |-> res, start |-> end_]
    ELSE IF Len(res.segments) = 1
    THEN [r |-> res, start |-> Min(Last(res.segments).end, end_)]
    ELSE LET kept == SkipSegments(res.segments, end_, 0,
                                  Max(1, Len(res.segments) - 1))
         IN  [r |-> [res EXCEPT !.segments = kept, !.text = JoinTexts(kept)],
              start |-> Min(Last(kept).end, end_)]

\* mutant: the removal budget is one too small
TrimSkipsOneLess(res, end_) ==
    IF Len(res.segments) = 0 THEN [r |-> res, start |-> end_]
    ELSE IF Len(res.segments) = 1 THEN [r |-> res, start |-> end_]
    ELSE LET kept == SkipSegments(res.segments, end_, 0,
                                  Max(1, Len(res.segments) - 1) - 1)
         IN  [r |-> [res EXCEPT !.segments = kept, !.text = JoinTexts(kept)],
              start |-> Min(Last(kept).end, end_)]

\* mutant: the text is not recomputed after the removal
TrimKeepsText(res, end_) ==
    IF Len(res.segments) = 0 THEN [r |-> res, start |-> end_]
    ELSE IF Len(res.segments) = 1 THEN [r |-> res, start |-> end_]
    ELSE LET kept == SkipSegments(res.segments, end_, 0,
                                  Max(1, Len(res.segments) - 1))
         IN  [r |-> [res EXCEPT !.segments = kept],
              start |-> Min(Last(kept).end, end_)]

\* mutant: the cursor is the end of the last retained segment, unclamped
TrimCursorUnclamped(res, end_) ==
    IF Len(res.segments) = 0 THEN [r |-> res, start |-> end_]
    ELSE IF Len(res.segments) = 1 THEN [r |-> res, start |-> end_]
    ELSE LET kept == SkipSegments(res.segments, end_, 0,
                                  Max(1, Len(res.segments) - 1))
         IN  [r |-> [res EXCEPT !.segments = kept, !.text = JoinTexts(kept)],
              start |-> Last(kept).end]

\* mutant: only the last segment is ever removed
TrimDropsOnlyLast(res, end_) ==
    IF Len(res.segments) = 0 THEN [r |-> res, start |-> end_]
    ELSE IF Len(res.segments) = 1 THEN [r |-> res, start |-> end_]
    ELSE LET kept == DropLast(res.segments)
         IN  [r |-> [res EXCEPT !.segments = kept, !.text = JoinTexts(kept)],
              start |-> Min(Last(kept).end, end_)]

\* lines 271-294: the retained result and the next cursor
Trim(res, end_) ==
    IF Len(res.segments) = 0 THEN [r |-> res, start |-> end_]
    ELSE IF Len(res.segments) = 1 THEN [r |-> res, start |-> end_]
    ELSE LET kept == SkipSegments(res.segments, end_, 0,
                                  Max(1, Len(res.segments) - 1))
         IN  [r |-> [res EXCEPT !.segments = kept, !.text = JoinTexts(kept)],
              start |-> Min(Last(kept).end, end_)]

\* kwargs["prompt"]: the key may be absent, may hold None, or holds a text
AbsentPrompt == [kind |-> "absent", text |-> <<>>]
NonePrompt == [kind |-> "None", text |-> <<>>]
StrPrompt(text) == [kind |-> "str", text |-> text]

\* kwargs.get("prompt", "") + r.text; None + str raises TypeError
PromptAppendFails(prompt) == prompt.kind = "None"
\* mutant: the prompt is replaced by the latest text
PromptAppendResets(prompt, text) == StrPrompt(text)

PromptAppend(prompt, text) == StrPrompt(prompt.text \o text)

----------------------------------------------------------------------------
(* State *)

VARIABLES
    args,           \* the caller's arguments and the probed file (never change)
    pc,             \* position of the generator
    error,          \* the exception that ended the stream, or "none"
    language,       \* local `language`
    kwargs,         \* kwargs["language"] and kwargs["prompt"]
    audio_duration, \* local `audio_duration`, -1 before the probe
    start,          \* local `start`: the cursor
    end,            \* local `end`: end of the current window
    chunk_index,    \* local `chunk_index`
    r,              \* local `r`: the result being processed or just yielded
    raw,            \* the latest response as it was received (see RawOf)
    requests,       \* windows <<start, end>> passed to atranscribe_fn, in order
    last_request,   \* language and prompt passed with the latest request
    in_flight,      \* transcription requests awaiting their response
    probe_calls,    \* calls of get_audio_duration
    slice_calls,    \* calls of trim_audio_and_convert_to_mp3
    n_yielded,      \* results yielded to the consumer
    last_emitted,   \* the last segment yielded so far (a sequence of 0 or 1)
    simple          \* atranscribe_streaming_simple and the consumer of its
                    \* segment generator (see DirectUse, SimpleCalled)

vars == <<args, pc, error, language, kwargs, audio_duration, start, end,
          chunk_index, r, raw, requests, last_request, in_flight,
          probe_calls, slice_calls, n_yielded, last_emitted, simple>>

CustomPrompt == StrPrompt(<<"H", "i", ".">>)
PromptArgs == {AbsentPrompt, NonePrompt, CustomPrompt}

Durations ==
    {0, 20, 65} \cup
    {OPENAI_WHISPER_MODEL_CHUNK_SIZE_SECONDS * k : k \in 2..MaxAudioChunks}

\* calls that exercise the windowing: every duration and chunk policy
TimingArgs ==
    [path_duration : Durations, chunk_size_fn : ChunkPolicies,
     language : {NoLang}, force_punctuation : {FALSE},
     prompt : {AbsentPrompt}, atranscribe_fn : {"timing"}]

\* calls that exercise the options: every language, flag and prompt
TextArgs ==
    [path_duration : {20, 65, 90}, chunk_size_fn : {"default"},
     language : LanguageArgs, force_punctuation : BOOLEAN,
     prompt : PromptArgs, atranscribe_fn : {"text"}]

NoRaw == [n |-> -1, last_end |-> -1, ends |-> <<>>, language |-> "", text |-> <<>>]

\* the generator is iterated by its caller, without the wrapper
DirectUse ==
    [pc |-> "direct", pos |-> 0, waiting |-> FALSE, started |-> FALSE]

\* lines 113-125: the wrapper has created the generator and awaits its
\* first element; `pos` counts the segments of the current element that
\* _gen has yielded, `waiting` is an __anext__ of _gen not yet answered,
\* `started` that _gen has yielded a segment
SimpleCalled ==
    [pc |-> "awaiting_first", pos |-> 0, waiting |-> FALSE, started |-> FALSE]

InitWith(arguments, use) ==
    /\ args \in arguments
    /\ simple = use
    /\ pc = "created"
    /\ error = "none"
    /\ language = args.language
    /\ kwargs = [language |-> NoLang, prompt |-> args.prompt]
    /\ audio_duration = -1
    /\ start = 0
    /\ end = 0
    /\ chunk_index = 0
    /\ r = NoResult
    /\ raw = NoRaw
    /\ requests = <<>>
    /\ last_request = [language |-> NoLang, prompt |-> AbsentPrompt]
    /\ in_flight = 0
    /\ probe_calls = 0
    /\ slice_calls = 0
    /\ n_yielded = 0
    /\ last_emitted = <<>>

Init == InitWith(TimingArgs \cup TextArgs, DirectUse)

Raise(exception) ==
    /\ pc' = "error"
    /\ error' = exception

----------------------------------------------------------------------------
(* Actions *)

\* mutant: the prompt check is missing
ValidateSkipsPromptCheck ==
    /\ pc = "created"
    /\ IF language # NoLang /\ language \notin SUPPORTED_LANGUAGES
       THEN Raise("UnsupportedLanguageError") /\ UNCHANGED kwargs
       ELSE /\ pc' = "probe"
            /\ error' = error
            /\ kwargs' = [kwargs EXCEPT !.language = language]
    /\ UNCHANGED <<args, simple, language, audio_duration, start, end, chunk_index, r,
                   raw, requests, last_request, in_flight, probe_calls,
                   slice_calls, n_yielded, last_emitted>>

\* mutant: the prompt check comes before the language check
ValidateChecksPromptFirst ==
    /\ pc = "created"
    /\ IF args.force_punctuation /\ kwargs.prompt.kind # "absent"
                                 /\ kwargs.prompt.kind # "None"
       THEN Raise("ValueError") /\ UNCHANGED kwargs
       ELSE IF language # NoLang /\ language \notin SUPPORTED_LANGUAGES
       THEN Raise("UnsupportedLanguageError") /\ UNCHANGED kwargs
       ELSE /\ pc' = "probe"
            /\ error' = error
            /\ kwargs' = [kwargs EXCEPT !.language = language]
    /\ UNCHANGED <<args, simple, language, audio_duration, start, end, chunk_index, r,
                   raw, requests, last_request, in_flight, probe_calls,
                   slice_calls, n_yielded, last_emitted>>

\* lines 178-190: the first __anext__ runs the argument checks
Validate ==
    /\ pc = "created"
    /\ IF language # NoLang /\ language \notin SUPPORTED_LANGUAGES
       THEN Raise("UnsupportedLanguageError") /\ UNCHANGED kwargs
       ELSE IF args.force_punctuation /\ kwargs.prompt.kind # "absent"
                                      /\ kwargs.prompt.kind # "None"
       THEN /\ Raise("ValueError")
            /\ kwargs' = [kwargs EXCEPT !.language = language]
       ELSE /\ pc' = "probe"
            /\ error' = error
            /\ kwargs' = [kwargs EXCEPT !.language = language]
    /\ UNCHANGED <<args, simple, language, audio_duration, start, end, chunk_index, r,
                   raw, requests, last_request, in_flight, probe_calls,
                   slice_calls, n_yielded, last_emitted>>

\* lines 192-225: the duration probe, the first window, the primed prompt
Probe ==
    /\ pc = "probe"
    /\ probe_calls' = probe_calls + 1
    /\ \E ok \in BOOLEAN :
         IF ~ ok
         THEN /\ Raise("NoAudioStreamsError")
              /\ UNCHANGED <<audio_duration, start, end, chunk_index, kwargs>>
         ELSE /\ audio_duration' = args.path_duration
              /\ start' = 0
              /\ chunk_index' = 0
              /\ end' = _get_end(args.chunk_size_fn, args.path_duration, 0, 0)
              /\ kwargs' =
                   IF args.force_punctuation /\ language # NoLang
                   THEN [kwargs EXCEPT !.prompt =
                           StrPrompt(get_punctuation_prompt_for_lang(language))]
                   ELSE kwargs
              /\ pc' = "first_call"
              /\ error' = error
    /\ UNCHANGED <<args, simple, language, r, raw, requests, last_request, in_flight,
                   slice_calls, n_yielded, last_emitted>>

\* mutant: the call is started and not awaited
AwaitSkipped(call) == call

\* lines 227, 240, 305: the generator awaits the call it has just made
AwaitOf(call) ==
    CASE call = "first_call" -> "first_await"
      [] call = "retry_call" -> "retry_await"
      [] call = "next_call" -> "next_await"

\* _transcribe (lines 308-344): slice the window, then call atranscribe_fn
Transcribe ==
    /\ pc \in {"first_call", "retry_call", "next_call"}
    /\ slice_calls' = slice_calls + 1
    /\ IF ~ (start >= 0) \/ ~ (end - start > 0)
       THEN /\ Raise("AssertionError")
            /\ UNCHANGED <<requests, last_request, in_flight>>
       ELSE \E sliced \in BOOLEAN :
              IF ~ sliced
              THEN /\ Raise("AudioTrimError")
                   /\ UNCHANGED <<requests, last_request, in_flight>>
              ELSE /\ requests' = Append(requests, <<start, end>>)
                   /\ last_request' = kwargs
                   /\ in_flight' = in_flight + 1
                   /\ pc' = AwaitOf(pc)
                   /\ error' = error
    /\ UNCHANGED <<args, simple, language, kwargs, audio_duration, start, end,
                   chunk_index, r, raw, probe_calls, n_yielded,
                   last_emitted>>

\* yield r: the consumer receives the result and its segments
Emit(res) ==
    /\ n_yielded' = n_yielded + 1
    /\ last_emitted' =
         IF res.segments = <<>> THEN last_emitted ELSE <<Last(res.segments)>>

\* mutant: a window that ends exactly at the end of the audio is not final
IsTerminalStrict(end_, duration) == end_ > duration

\* line 258: the window reaches the end of the audio
IsTerminal(end_, duration) == end_ >= duration

\* lines 249-300: one pass of the loop body, from the rebasing to the yield,
\* on the result `res` with the keyword arguments `kw`
LoopBody(res, kw) ==
    LET rebased == [res EXCEPT !.segments = Rebase(res.segments, start)]
        t == Trim(rebased, end)
    IN  /\ IF IsTerminal(end, audio_duration)
           THEN /\ r' = rebased
                /\ start' = start
                /\ kwargs' = kw
                /\ pc' = "yielded_last"
                /\ error' = error
                /\ Emit(rebased)
           ELSE IF PromptAppendFails(kw.prompt)
           THEN /\ r' = t.r
                /\ start' = t.start
                /\ kwargs' = kw
                /\ Raise("TypeError")
                /\ UNCHANGED <<n_yielded, last_emitted>>
           ELSE /\ r' = t.r
                /\ start' = t.start
                /\ kwargs' = [kw EXCEPT !.prompt = PromptAppend(kw.prompt, t.r.text)]
                /\ pc' = "yielded"
                /\ error' = error
                /\ Emit(t.r)

\* what the model remembers of a response as it was received: its segment
\* count, the ends of its segments on the whole-file timeline, the language
\* it reports, its text
RawOf(res) ==
    [n |-> Len(res.segments),
     last_end |-> IF res.segments = <<>> THEN -1 ELSE Last(res.segments).end + start,
     ends |-> [i \in 1..Len(res.segments) |-> res.segments[i].end + start],
     language |-> res.language,
     text |-> res.text]

\* mutant: the first segment's text is left as it came
CapitalizeResultTextOnly(res) ==
    [res EXCEPT !.text = Capitalize(res.text)]

\* lines 242-247: capitalize the text and the first segment's text
CapitalizeResult(res) ==
    [res EXCEPT !.text = Capitalize(res.text),
                !.segments = IF Len(res.segments) > 0
                             THEN [res.segments EXCEPT ![1].text =
                                     Capitalize(res.segments[1].text)]
                             ELSE res.segments]

\* mutant: the failed call is made again
FailedRetries ==
    /\ pc' = "next_call"
    /\ error' = "APIError"
    /\ UNCHANGED <<language, kwargs, start, r, raw, n_yielded,
                   last_emitted>>

\* the awaited call raised: the exception leaves the generator
Failed ==
    /\ Raise("APIError")
    /\ UNCHANGED <<language, kwargs, start, r, raw, n_yielded,
                   last_emitted>>

\* mutant: the language of the response replaces a pinned language
AdoptLanguageAlways(current, reported) == get_lang_from_name(reported)

\* lines 229-231: the language of the first response is adopted when the
\* caller pinned none
AdoptLanguage(current, reported) ==
    IF current = NoLang THEN get_lang_from_name(reported) ELSE current

\* line 227 returns; lines 229-247, then the loop body unless the window is
\* re-issued
FirstResponse ==
    /\ pc = "first_await"
    /\ in_flight' = in_flight - 1
    /\ \E ok \in BOOLEAN :
         IF ~ ok THEN Failed
         ELSE \E res \in Results(args.atranscribe_fn, end - start) :
           LET lang == AdoptLanguage(language, res.language)
               kw == IF language = NoLang
                     THEN [kwargs EXCEPT !.language = lang] ELSE kwargs
           IN  IF lang = "!"
               THEN /\ Raise("UnsupportedLanguageError")
                    /\ UNCHANGED <<language, kwargs, start, r, raw, n_yielded,
                                   last_emitted>>
               ELSE IF args.force_punctuation /\ ~ is_punctuation_present(res.text)
               THEN /\ language' = lang
                    /\ kwargs' = [kw EXCEPT !.prompt = StrPrompt(
                           get_punctuation_prompt_for_lang(lang) \o <<" ">>)]
                    /\ pc' = "retry_call"
                    /\ error' = error
                    /\ raw' = RawOf(res)
                    /\ UNCHANGED <<start, r, n_yielded, last_emitted>>
               ELSE /\ language' = lang
                    /\ raw' = RawOf(res)
                    /\ LoopBody(IF args.force_punctuation
                                THEN CapitalizeResult(res) ELSE res, kw)
    /\ UNCHANGED <<args, simple, audio_duration, end, chunk_index, requests,
                   last_request, probe_calls, slice_calls>>

\* mutant: the second result is capitalized like an accepted first result
RetryResponseCapitalizes ==
    /\ pc = "retry_await"
    /\ in_flight' = in_flight - 1
    /\ \E ok \in BOOLEAN :
         IF ~ ok THEN Failed
         ELSE \E res \in Results(args.atranscribe_fn, end - start) :
                raw' = RawOf(res) /\ LoopBody(CapitalizeResult(res), kwargs)
    /\ UNCHANGED <<args, simple, language, audio_duration, end, chunk_index, requests,
                   last_request, probe_calls, slice_calls>>

\* line 240 returns: the second result is taken as it is
RetryResponse ==
    /\ pc = "retry_await"
    /\ in_flight' = in_flight - 1
    /\ \E ok \in BOOLEAN :
         IF ~ ok THEN Failed
         ELSE \E res \in Results(args.atranscribe_fn, end - start) :
                raw' = RawOf(res) /\ LoopBody(res, kwargs)
    /\ UNCHANGED <<args, simple, language, audio_duration, end, chunk_index, requests,
                   last_request, probe_calls, slice_calls>>

\* line 305 returns
NextResponse ==
    /\ pc = "next_await"
    /\ in_flight' = in_flight - 1
    /\ \E ok \in BOOLEAN :
         IF ~ ok THEN Failed
         ELSE \E res \in Results(args.atranscribe_fn, end - start) :
                raw' = RawOf(res) /\ LoopBody(res, kwargs)
    /\ UNCHANGED <<args, simple, language, audio_duration, end, chunk_index, requests,
                   last_request, probe_calls, slice_calls>>

\* mutant: the next element is fetched while segments are still to be
\* yielded and nobody asked
ConsumerResumesEarly == simple.pc \in {"direct", "returned"}

\* the suspended generator is resumed by the caller's __anext__, or under
\* the wrapper by _gen's `async for elem in it` (line 135), which _gen
\* reaches on a request of its consumer once it has yielded every segment
\* of the current element (lines 133-137)
ConsumerResumes ==
    \/ simple.pc = "direct"
    \/ simple.pc = "returned" /\ simple.waiting
                              /\ simple.pos = Len(r.segments)

\* the consumer asks for the next element after a non-terminal yield:
\* lines 301-304, the next window
Pull ==
    /\ pc = "yielded"
    /\ ConsumerResumes
    /\ simple' = [simple EXCEPT !.pos = 0]
    /\ chunk_index < MaxChunkIndex
    /\ chunk_index' = chunk_index + 1
    /\ end' = _get_end(args.chunk_size_fn, audio_duration, start, chunk_index + 1)
    /\ pc' = "next_call"
    /\ r' = NoResult
    /\ raw' = NoRaw
    /\ UNCHANGED <<args, error, language, kwargs, audio_duration, start,
                   requests, last_request, in_flight, probe_calls, slice_calls,
                   n_yielded, last_emitted>>

\* the consumer asks for the next element after the terminal yield:
\* lines 260-261, the generator returns
Finish ==
    /\ pc = "yielded_last"
    /\ ConsumerResumes
    /\ simple' = [simple EXCEPT !.waiting = FALSE]
    /\ pc' = "done"
    /\ UNCHANGED <<args, error, language, kwargs, audio_duration, start, end,
                   chunk_index, r, raw, requests, last_request, in_flight,
                   probe_calls, slice_calls, n_yielded, last_emitted>>

\* the generator is suspended at a yield (line 260 or 300)
Yielded == pc \in {"yielded", "yielded_last"}

\* lines 125-138: the first element arrives; the text of its first segment
\* is stripped in place, the language is looked up, _gen is returned
SimpleReturn ==
    /\ simple.pc = "awaiting_first"
    /\ Yielded
    /\ r' = IF Len(r.segments) > 0
            THEN [r EXCEPT !.segments[1].text = lstrip(r.segments[1].text)]
            ELSE r
    /\ simple' = IF get_lang_from_name(r.language) = "!"
                 THEN [simple EXCEPT !.pc = "raised"]
                 ELSE [simple EXCEPT !.pc = "returned"]
    /\ UNCHANGED <<args, pc, error, language, kwargs, audio_duration, start,
                   end, chunk_index, raw, requests, last_request, in_flight,
                   probe_calls, slice_calls, n_yielded, last_emitted>>

\* the consumer calls __anext__ on _gen
Ask ==
    /\ simple.pc = "returned"
    /\ ~ simple.waiting
    /\ Yielded
    /\ simple' = [simple EXCEPT !.waiting = TRUE]
    /\ UNCHANGED <<args, pc, error, language, kwargs, audio_duration, start,
                   end, chunk_index, r, raw, requests, last_request,
                   in_flight, probe_calls, slice_calls, n_yielded,
                   last_emitted>>

\* lines 133-134, 136-137: _gen yields the next segment of the element
Deliver ==
    /\ simple.pc = "returned"
    /\ simple.waiting
    /\ Yielded
    /\ simple.pos < Len(r.segments)
    /\ simple' = [simple EXCEPT !.pos = @ + 1, !.waiting = FALSE,
                                !.started = TRUE]
    /\ UNCHANGED <<args, pc, error, language, kwargs, audio_duration, start,
                   end, chunk_index, r, raw, requests, last_request,
                   in_flight, probe_calls, slice_calls, n_yielded,
                   last_emitted>>

Next ==
    \/ Validate
    \/ Probe
    \/ Transcribe
    \/ FirstResponse
    \/ RetryResponse
    \/ NextResponse
    \/ Pull
    \/ Finish

Spec == Init /\ [][Next]_vars

\* the stream with a caller that consumes it fully and a probe, a slicer and
\* a service that always answer: a step that can be taken is taken
FairSpec == Init /\ [][Next]_vars /\ WF_vars(Next)

\* the same stream behind atranscribe_streaming_simple
SimpleArgs ==
    [path_duration : {20, 65, 90}, chunk_size_fn : {"default"},
     language : LanguageArgs, force_punctuation : BOOLEAN,
     prompt : {AbsentPrompt}, atranscribe_fn : {"text"}]

SimpleInit == InitWith(SimpleArgs, SimpleCalled)

SimpleNext ==
    \/ Next
    \/ SimpleReturn
    \/ Ask
    \/ Deliver

SimpleSpec == SimpleInit /\ [][SimpleNext]_vars

----------------------------------------------------------------------------
(* Properties *)

\* the window <<start, end>> is the one _get_end computed for the cursor
WindowIsFresh ==
    pc \in {"first_call", "first_await", "retry_call", "retry_await",
            "next_call", "next_await"}

\* C1: whenever a window has been computed for the cursor `start` and the
\* chunk index, its end is the total duration if the audio left after the
\* nominal end is shorter than the nominal chunk, and the nominal end
\* otherwise; for the first window and for every later one.
C1_EndClamp ==
    WindowIsFresh =>
        LET size == ChunkSize(args.chunk_size_fn, chunk_index)
        IN  /\ (audio_duration - (start + size) < size) => end = audio_duration
            /\ ~ (audio_duration - (start + size) < size) => end = start + size

\* a window computed after a cursor advance whose nominal end lies before
\* the end of the audio and is extended to it
C1_Witness ==
    /\ pc = "next_call"
    /\ start > 0
    /\ start + ChunkSize(args.chunk_size_fn, chunk_index) < audio_duration
    /\ end = audio_duration

\* C2: after a non-terminal iteration on a response of zero or one segment,
\* every segment of the response is in the yielded result and the cursor is
\* the window end.
C2_NoTrimming ==
    (pc = "yielded" /\ raw.n \in {0, 1}) =>
        /\ Len(r.segments) = raw.n
        /\ raw.n = 1 => Last(r.segments).end = raw.last_end
        /\ start = end

\* a single segment that ends before the window end, and the cursor at the
\* window end all the same
C2_Witness ==
    /\ pc = "yielded"
    /\ raw.n = 1
    /\ Len(r.segments) = 1
    /\ Last(r.segments).end < end
    /\ start = end

\* C3: after a non-terminal iteration on a response of n >= 2 segments, at
\* least one segment was removed if the response's last segment ended at or
\* after the window end, at most n - 1 were removed, and one is retained.
C3_TrimBounds ==
    (pc = "yielded" /\ raw.n >= 2) =>
        /\ raw.last_end >= end => raw.n - Len(r.segments) >= 1
        /\ raw.n - Len(r.segments) <= raw.n - 1
        /\ Len(r.segments) >= 1

\* the removal budget is used up: n - 1 of n = 3 segments were removed and
\* the retained one still ends at or after the window end
C3_Witness ==
    /\ pc = "yielded"
    /\ raw.n = 3
    /\ raw.last_end >= end
    /\ Len(r.segments) = 1
    /\ Last(r.segments).end >= end

\* a step in which the generator yields a result
YieldStep == n_yielded' = n_yielded + 1

NonDecreasing(segments) ==
    \A i \in 1..(Len(segments) - 1) :
        /\ segments[i].start <= segments[i + 1].start
        /\ segments[i].end <= segments[i + 1].end

\* C4: the start values and the end values of the emitted segments never
\* decrease along the emitted sequence: at every yield, the last segment
\* emitted before, followed by the segments of the yielded result, is
\* non-decreasing in start and in end.
C4_Monotone ==
    [][YieldStep => NonDecreasing(last_emitted \o r'.segments)]_vars

IsPrefix(a, b) == Len(a) <= Len(b) /\ SubSeq(b, 1, Len(a)) = a

\* a step that completes a non-terminal iteration
NonTerminalYield == YieldStep /\ pc' = "yielded"

\* C5 as claimed: every non-terminal iteration leaves the prompt strictly
\* longer, and the previous prompt is a prefix of the new one.
C5_StrictGrowth ==
    [][/\ NonTerminalYield =>
              Len(kwargs'.prompt.text) > Len(kwargs.prompt.text)
       /\ IsPrefix(kwargs.prompt.text, kwargs'.prompt.text)]_vars

\* C5 as amended: every non-terminal iteration leaves the prompt equal to
\* the previous prompt followed by the retained text (so it is longer
\* exactly when that text is not empty), and in every step the previous
\* prompt is a prefix of the new one.
C5_PromptGrows ==
    [][/\ NonTerminalYield =>
              kwargs'.prompt = StrPrompt(kwargs.prompt.text \o r'.text)
       /\ IsPrefix(kwargs.prompt.text, kwargs'.prompt.text)]_vars

\* a second non-terminal iteration has appended a non-empty text to a
\* prompt that was not empty
C5_Witness ==
    /\ pc = "yielded"
    /\ n_yielded = 2
    /\ r.text # <<>>
    /\ Len(kwargs.prompt.text) > Len(r.text)

\* the first response has been received and inspected, and nothing has
\* been requested since
FirstResultInspected ==
    /\ chunk_index = 0
    /\ slice_calls = 1
    /\ Len(requests) = 1
    /\ raw # NoRaw

NoUpper(text) == \A i \in 1..Len(text) : text[i] \notin UpperChars
NoMark(text) == \A i \in 1..Len(text) : text[i] \notin PunctuationMarks

\* C6 as claimed: with punctuation forcing and no pinned language, the
\* first window is re-issued if and only if the first text has no uppercase
\* letter and no punctuation mark.
C6_RetryIffNeither ==
    (args.force_punctuation /\ args.language = NoLang /\ FirstResultInspected)
        => ((pc = "retry_call") <=> (NoUpper(raw.text) /\ NoMark(raw.text)))

\* C6 as amended: the first window is re-issued if and only if the first
\* text has no uppercase letter or has no punctuation mark.
C6_RetryIffEither ==
    (args.force_punctuation /\ args.language = NoLang /\ FirstResultInspected)
        => ((pc = "retry_call") <=> (NoUpper(raw.text) \/ NoMark(raw.text)))

\* a first text with an uppercase letter and no mark makes the window be
\* re-issued
C6_Witness ==
    /\ args.force_punctuation
    /\ args.language = NoLang
    /\ FirstResultInspected
    /\ pc = "retry_call"
    /\ ~ NoUpper(raw.text)
    /\ NoMark(raw.text)

IsCapitalized(text) ==
    text = <<>> \/ (Head(text) \notin SpaceChars /\ Upper(Head(text)) = Head(text))

PinnedAndForced ==
    args.force_punctuation /\ args.language \in SUPPORTED_LANGUAGES

\* C7 as claimed: with punctuation forcing and a pinned language the first
\* window is never re-issued, and the first yielded result has its text and
\* its first segment's text capitalized.
C7_NeverReissued ==
    PinnedAndForced =>
        /\ pc \notin {"retry_call", "retry_await"}
        /\ (chunk_index = 0 => Len(requests) <= 1)
        /\ (FirstResultInspected /\ pc \in {"yielded", "yielded_last"}) =>
              /\ IsCapitalized(r.text)
              /\ r.segments # <<>> => IsCapitalized(r.segments[1].text)

\* C7 as amended: the first request carries the priming phrase; the first
\* window is re-issued, once and with the phrase plus a space, exactly when
\* the first text lacks an uppercase letter or lacks a punctuation mark;
\* when it is not, the text as returned and the first segment's text are
\* capitalized in the yielded result (the text of a non-terminal result of
\* two or more segments is then rebuilt from the retained segments).
C7_PrimedFirstWindow ==
    PinnedAndForced =>
        /\ (chunk_index = 0 /\ Len(requests) = 1) =>
              last_request.prompt =
                  StrPrompt(get_punctuation_prompt_for_lang(args.language))
        /\ FirstResultInspected =>
              ((pc = "retry_call") <=> (NoUpper(raw.text) \/ NoMark(raw.text)))
        /\ (chunk_index = 0 /\ Len(requests) >= 2) =>
              /\ requests = <<requests[1], requests[1]>>
              /\ last_request.prompt = StrPrompt(
                    get_punctuation_prompt_for_lang(args.language) \o <<" ">>)
        /\ (FirstResultInspected /\ pc \in {"yielded", "yielded_last"}) =>
              /\ r.segments # <<>> => IsCapitalized(r.segments[1].text)
              /\ (pc = "yielded_last" \/ raw.n <= 1) =>
                    r.text = Capitalize(raw.text)

\* the first result came with punctuation, was not re-issued, and its text
\* and first segment's text were capitalized
C7_Witness ==
    /\ PinnedAndForced
    /\ FirstResultInspected
    /\ pc = "yielded"
    /\ raw.text = <<" ", "a", ".", "B">>
    /\ r.segments # <<>>
    /\ r.segments[1].text = <<"A">>

ScenarioA ==
    /\ args.path_duration = 65
    /\ args.chunk_size_fn = "default"
    /\ ~ args.force_punctuation

\* C8 as claimed: in scenario A the windows requested are [0,30) and then
\* [30,65), whatever the results, and the stream is done after 2 requests.
C8_TwoWindowsAlways ==
    ScenarioA =>
        /\ IsPrefix(requests, <<(<<0, 30>>), (<<30, 65>>)>>)
        /\ pc = "done" => Len(requests) = 2

\* C8 as amended: in scenario A the first window is [0,30); a first result
\* of zero or one segment leaves the cursor at 30; and whenever the second
\* window starts at 30 it is [30,65) and no third request follows.
C8_TwoWindowsFromCursor30 ==
    ScenarioA =>
        /\ Len(requests) >= 1 => requests[1] = <<0, 30>>
        /\ (pc = "yielded" /\ chunk_index = 0 /\ raw.n <= 1) => start = 30
        /\ (Len(requests) >= 2 /\ requests[2][1] = 30) =>
              requests = <<(<<0, 30>>), (<<30, 65>>)>>

\* scenario A run to the end with the two windows
C8_Witness ==
    /\ ScenarioA
    /\ pc = "done"
    /\ requests = <<(<<0, 30>>), (<<30, 65>>)>>

NothingDone ==
    /\ probe_calls = 0
    /\ slice_calls = 0
    /\ requests = <<>>
    /\ in_flight = 0
    /\ n_yielded = 0
    /\ last_emitted = <<>>

ForcedWithPrompt == args.force_punctuation /\ args.prompt.kind = "str"

\* C9 as claimed: with punctuation forcing and an explicit prompt the
\* stream fails with ValueError before the probe, with no slice, no request
\* and nothing emitted.
C9_AlwaysValueError ==
    (ForcedWithPrompt /\ pc # "created") =>
        pc = "error" /\ error = "ValueError" /\ NothingDone

\* C9 as amended: the same, unless the pinned language is unsupported, in
\* which case the stream fails as early with UnsupportedLanguageError.
C9_InvalidConfiguration ==
    (ForcedWithPrompt /\ pc # "created") =>
        /\ pc = "error"
        /\ NothingDone
        /\ error = IF args.language \in SUPPORTED_LANGUAGES \cup {NoLang}
                   THEN "ValueError" ELSE "UnsupportedLanguageError"

\* the failure with a supported language pinned
C9_Witness ==
    /\ ForcedWithPrompt
    /\ args.language = "fr"
    /\ pc = "error"
    /\ error = "ValueError"

\* C10: a pinned language outside the supported set fails the stream with
\* UnsupportedLanguageError at once: no probe, no slice, no request, nothing
\* emitted.
C10_UnsupportedLanguage ==
    (args.language \notin SUPPORTED_LANGUAGES \cup {NoLang} /\ pc # "created") =>
        pc = "error" /\ error = "UnsupportedLanguageError" /\ NothingDone

\* the failure, here together with punctuation forcing and a prompt
C10_Witness ==
    /\ args.language = "la"
    /\ ForcedWithPrompt
    /\ pc = "error"
    /\ error = "UnsupportedLanguageError"

AwaitStates == {"first_await", "retry_await", "next_await"}

\* a step that issues a transcription request
RequestIssued == Len(requests') = Len(requests) + 1

\* C12: at most one transcription request is in flight at any time, and a
\* request is in flight exactly while the generator awaits it; a request is
\* issued only when every earlier request has been answered, and it carries
\* the window and the prompt and language that the processing of the
\* earlier responses left behind.
C12_OneRequestAtATime ==
    [][/\ in_flight' \in {0, 1}
       /\ (in_flight' = 1) <=> (pc' \in AwaitStates)
       /\ RequestIssued =>
            /\ in_flight = 0
            /\ pc \notin AwaitStates
            /\ requests' = Append(requests, <<start, end>>)
            /\ last_request' = kwargs]_vars

\* the third request is in flight after the first two were answered and
\* their results yielded
C12_Witness ==
    /\ Len(requests) = 3
    /\ in_flight = 1
    /\ n_yielded = 2
    /\ pc = "next_await"
    /\ requests[3][1] > 0

\* the exceptions of a failed request: the slicing or the transcription call
RequestFailures == {"AudioTrimError", "AssertionError", "APIError"}

\* C14: when the slicing or the transcription call of a request fails, the
\* stream is in its error state with no request in flight, the failing step
\* issues no request and emits nothing, and from the error state no request
\* is sliced or issued and nothing emitted before is changed or added to.
C14_FailureEndsStream ==
    [][/\ (error' \in RequestFailures) =>
            /\ pc' = "error"
            /\ in_flight' = 0
            /\ requests' = requests
            /\ n_yielded' = n_yielded
            /\ last_emitted' = last_emitted
       /\ (pc = "error") =>
            UNCHANGED <<pc, error, requests, slice_calls, n_yielded,
                        last_emitted>>]_vars

\* the second request fails after the first result was emitted
C14_Witness ==
    /\ pc = "error"
    /\ error = "APIError"
    /\ Len(requests) = 2
    /\ slice_calls = 2
    /\ n_yielded = 1
    /\ last_emitted # <<>>

\* C15: the default chunk policy returns a positive size for every index
\* from 0 on: 30 seconds for the indices 0 and 1, and 30 times the index
\* from index 2 on; a window computed under the default policy has that
\* size unless it was extended or cut to the end of the audio.
C15_DefaultChunkSize ==
    /\ \A i \in 0..(MaxChunkIndex + 1) :
         /\ default_chunk_size_fn(i) > 0
         /\ i \in {0, 1} => default_chunk_size_fn(i) = 30
         /\ i >= 2 => default_chunk_size_fn(i) = 30 * i
    /\ (WindowIsFresh /\ args.chunk_size_fn = "default") =>
         \/ end = audio_duration
         \/ end - start = IF chunk_index < 2 THEN 30 ELSE 30 * chunk_index

\* the window of index 2 under the default policy is 60 seconds long
C15_Witness ==
    /\ args.chunk_size_fn = "default"
    /\ pc = "next_call"
    /\ chunk_index = 2
    /\ end - start = 60

\* C16: the first request carries the pinned language as its hint, and no
\* hint when the caller pinned none; every later request, the re-issue of
\* the first window included, carries the stream's language, which is the
\* pinned language or else the language the first response reported, and
\* which never changes once set, whatever later responses report.
C16_LanguageHint ==
    [][/\ Len(requests') = 1 => last_request'.language = args.language
       /\ Len(requests') >= 2 =>
            /\ last_request'.language = language'
            /\ language' \in SUPPORTED_LANGUAGES
            /\ args.language # NoLang => language' = args.language
       /\ language # NoLang => language' = language
       /\ (pc = "first_await" /\ pc' # "error" /\ args.language = NoLang) =>
            \/ raw'.language = "english" /\ language' = "en"
            \/ raw'.language = "french" /\ language' = "fr"]_vars

\* the second response reports French after the first reported English:
\* the stream's language and the hint of the second request are English
C16_Witness ==
    /\ args.language = NoLang
    /\ Len(requests) = 2
    /\ chunk_index = 1
    /\ pc = "yielded"
    /\ raw.language = "french"
    /\ language = "en"
    /\ last_request.language = "en"

\* C17: after a non-terminal iteration on a response of n >= 2 segments the
\* retained segments are the first k of the response, where 1 <= k <= n - 1
\* and k is the largest such count whose last segment ends strictly before
\* the window end, or 1 when there is none; the next cursor is the smaller
\* of the end of the last retained segment and the window end.  When three
\* segments all end before the window end (Scenario D), exactly one is
\* removed and the cursor is the end of the second.
C17_TrimStopsAtFirstFit ==
    (pc = "yielded" /\ raw.n >= 2) =>
        LET k == Len(r.segments)
        IN  /\ k \in 1..(raw.n - 1)
            /\ \A i \in 1..k : r.segments[i].end = raw.ends[i]
            /\ \A j \in (k + 1)..(raw.n - 1) : raw.ends[j] >= end
            /\ raw.ends[k] < end \/ k = 1
            /\ start = Min(raw.ends[k], end)
            /\ (raw.n = 3 /\ \A j \in 1..3 : raw.ends[j] < end) =>
                 k = 2 /\ start = raw.ends[2]

\* three segments that all end before the end of a window that starts
\* after offset 0: one is removed and the cursor moves into the window
C17_Witness ==
    /\ pc = "yielded"
    /\ raw.n = 3
    /\ \A j \in 1..3 : raw.ends[j] < end
    /\ raw.ends[1] < raw.ends[2]
    /\ Len(r.segments) = 2
    /\ Last(requests)[1] > 0
    /\ start > Last(requests)[1]
    /\ start = raw.ends[2]

\* C18: a result yielded for a window that reaches the end of the audio is
\* the whole rebased response, none of its segments removed, and it is the
\* terminal yield; after it the generator only returns, with no further
\* slice, request or yield; and the generator returns only from a terminal
\* yield, so that the last requested window ends at the total duration.
C18_TerminalIteration ==
    [][/\ (YieldStep /\ end >= audio_duration) =>
            /\ pc' = "yielded_last"
            /\ in_flight' = 0
            /\ Len(r'.segments) = raw'.n
            /\ \A i \in 1..raw'.n : r'.segments[i].end = raw'.ends[i]
       /\ (YieldStep /\ end < audio_duration) => pc' = "yielded"
       /\ (pc \in {"yielded_last", "done"}) =>
            /\ pc' = "done"
            /\ UNCHANGED <<requests, slice_calls, in_flight, n_yielded,
                           last_emitted>>
       /\ (pc' = "done") =>
            /\ pc \in {"yielded_last", "done"}
            /\ Last(requests)[2] = audio_duration]_vars

\* the stream is done after two windows; the last response had three
\* segments, the last of them reaching past the end of the audio, all kept
C18_Witness ==
    /\ pc = "done"
    /\ Len(requests) = 2
    /\ n_yielded = 2
    /\ raw.n = 3
    /\ Len(r.segments) = 3
    /\ raw.last_end > audio_duration

\* the punctuation re-issue was requested: the first window twice
Reissued == chunk_index = 0 /\ Len(requests) = 2

\* C19: while the first window is being processed at most two requests are
\* made; the second covers the same window as the first, starting at 0, and
\* carries as its prompt the priming phrase of the stream's language
\* followed by one space; nothing has been emitted when it is made; and the
\* result yielded after it is the second response taken as it came, not
\* inspected or capitalized again: an untrimmed yield has the text of the
\* second response.
C19_RetryOrdering ==
    /\ chunk_index = 0 => Len(requests) <= 2
    /\ pc \in {"retry_call", "retry_await"} =>
         /\ args.force_punctuation
         /\ n_yielded = 0
         /\ last_emitted = <<>>
         /\ r = NoResult
         /\ kwargs.prompt =
              StrPrompt(get_punctuation_prompt_for_lang(language) \o <<" ">>)
    /\ Reissued =>
         /\ requests[2] = requests[1]
         /\ requests[1][1] = 0
         /\ last_request.prompt =
              StrPrompt(get_punctuation_prompt_for_lang(language) \o <<" ">>)
         /\ pc \in {"retry_await", "yielded", "yielded_last", "done", "error"}
         /\ (pc \in {"yielded", "yielded_last", "done"}) =>
              /\ n_yielded = 1
              /\ Len(r.segments) <= raw.n
              /\ (pc # "yielded" \/ raw.n <= 1) => r.text = raw.text

\* the second response of the first window is yielded as it came, without
\* capital letter or punctuation, after a language was detected
C19_Witness ==
    /\ Reissued
    /\ args.language = NoLang
    /\ language = "fr"
    /\ pc = "yielded"
    /\ n_yielded = 1
    /\ raw.text = <<" ", "a">>
    /\ r.text = <<" ", "a">>

\* the generator is about to pass the window <<start, end>> to the slicer
AboutToSlice == pc \in {"first_call", "retry_call", "next_call"}

\* C20 as claimed: every window passed to the slicer has start >= 0 and
\* end > start, whatever the probed duration, the chunk policy and the
\* recognition results.
C20_WindowsAreValid ==
    AboutToSlice => (start >= 0 /\ end > start)

\* _gen yields the first segment of the stream
FirstSegmentDelivered == simple'.started /\ ~ simple.started

\* C11 as claimed: the text of the first segment that the wrapper's
\* generator yields has no leading whitespace, whichever chunk result the
\* segment comes from.
C11_FirstSegmentStripped ==
    [][FirstSegmentDelivered =>
         LET text == r.segments[simple.pos + 1].text
         IN  text = <<>> \/ Head(text) \notin SpaceChars]_vars

\* C13: the wrapper returns (or fails) after the generator has yielded
\* exactly one result, that of the first window, requested once or twice;
\* a later window is computed, and its request issued, only while a request
\* of the consumer is unanswered and every segment of the current element
\* has been yielded; and while the consumer has no request pending, nothing
\* is in flight and nothing is sliced or requested.
C13_DrivenByConsumption ==
    [][/\ (simple.pc = "awaiting_first" /\ simple'.pc # "awaiting_first") =>
            /\ n_yielded = 1
            /\ chunk_index = 0
            /\ in_flight = 0
            /\ Len(requests) \in {1, 2}
            /\ \A i \in 1..Len(requests) : requests[i] = requests[1]
       /\ (simple.pc = "awaiting_first") => chunk_index' = 0
       /\ (chunk_index' # chunk_index) =>
            /\ simple.pc = "returned"
            /\ simple.waiting
            /\ simple.pos = Len(r.segments)
       /\ (RequestIssued /\ chunk_index >= 1) => simple.waiting
       /\ (simple.pc = "returned" /\ ~ simple.waiting) =>
            /\ in_flight = 0
            /\ Yielded \/ pc = "done"
            /\ UNCHANGED <<pc, requests, slice_calls, in_flight, n_yielded>>]_vars

\* the consumer has taken the segment of the second window's result and
\* has not asked again: three requests were made, the first window twice,
\* and the generator is suspended before the end of the audio
C13_Witness ==
    /\ simple.pc = "returned"
    /\ ~ simple.waiting
    /\ simple.pos = 1
    /\ pc = "yielded"
    /\ chunk_index = 1
    /\ Len(requests) = 3
    /\ requests[2] = requests[1]
    /\ in_flight = 0

\* the emitted segments of a yield are the segments of the yielded result
EmitsRetained ==
    /\ Len(r'.segments) <= raw'.n
    /\ last_emitted' = IF r'.segments = <<>> THEN last_emitted
                       ELSE <<Last(r'.segments)>>

\* C21 as claimed: in every non-terminal iteration the text appended to the
\* prompt is the concatenation of the texts of the segments emitted in it,
\* and a response of two or more segments loses at least its last one.
C21_PromptIsEmittedText ==
    [][NonTerminalYield =>
         /\ EmitsRetained
         /\ raw'.n >= 2 => Len(r'.segments) < raw'.n
         /\ kwargs'.prompt.text =
              kwargs.prompt.text \o JoinTexts(r'.segments)]_vars

\* C21 as amended: the same for a response of two or more segments; for a
\* response of no or one segment nothing is removed and the text appended
\* is the text field of the response as the service reported it
\* (capitalized when the first response was accepted under punctuation
\* forcing), whatever the texts of its segments.
C21_PromptIsRetainedText ==
    [][NonTerminalYield =>
         /\ EmitsRetained
         /\ raw'.n >= 2 =>
              /\ Len(r'.segments) < raw'.n
              /\ kwargs'.prompt.text =
                   kwargs.prompt.text \o JoinTexts(r'.segments)
         /\ raw'.n <= 1 =>
              /\ Len(r'.segments) = raw'.n
              /\ kwargs'.prompt.text =
                   kwargs.prompt.text \o
                   (IF pc = "first_await" /\ args.force_punctuation
                    THEN Capitalize(raw'.text) ELSE raw'.text)]_vars

\* of a first response of two segments with the text "a." one segment with
\* the text " a" is emitted, and " a" is the prompt
C21_Witness ==
    /\ pc = "yielded"
    /\ chunk_index = 0
    /\ args.prompt = AbsentPrompt
    /\ ~ args.force_punctuation
    /\ raw.n = 2
    /\ raw.text = <<"a", ".">>
    /\ Len(r.segments) = 1
    /\ r.segments[1].text = <<" ", "a">>
    /\ kwargs.prompt = StrPrompt(<<" ", "a">>)

\* the arguments pass the checks of lines 180-190 and the prompt, if
\* given, is a text
ValidCall ==
    /\ args.language \in SUPPORTED_LANGUAGES \cup {NoLang}
    /\ args.prompt.kind # "None"
    /\ ~ (args.force_punctuation /\ args.prompt.kind = "str")

\* the probe, the slicing or the transcription service failed, or the
\* service reported a language that is not supported
ExternalFailures ==
    {"NoAudioStreamsError", "AudioTrimError", "APIError",
     "UnsupportedLanguageError"}

\* C22 as claimed: under the default chunk policy a validly called stream
\* whose probe, slicer and service do not fail, consumed fully, reaches
\* Done, whatever the total duration and the recognition results.
C22_DefaultPolicyTerminates ==
    (args.chunk_size_fn = "default" /\ ValidCall) =>
        <>(pc = "done" \/ error \in ExternalFailures)

\* C23: the first requested window starts at 0; every next window starts
\* at or after the start of the one before and at or before its end; the
\* cursor lies within the latest window and never moves backwards; and
\* once the stream is done every second of [0, total duration) lies in a
\* requested window.
C23_Coverage ==
    [][/\ start' >= start
       /\ Len(requests') >= 1 =>
            /\ requests'[1][1] = 0
            /\ Last(requests')[1] <= start'
            /\ start' <= Last(requests')[2]
       /\ \A i \in 1..(Len(requests') - 1) :
            /\ requests'[i][1] <= requests'[i + 1][1]
            /\ requests'[i + 1][1] <= requests'[i][2]
       /\ (pc' = "done") =>
            \A t \in 0..(audio_duration' - 1) :
               \E i \in 1..Len(requests') :
                  requests'[i][1] <= t /\ t < requests'[i][2]]_vars

\* the stream is done after three windows, the second starting inside the
\* first, the third where the second started
C23_Witness ==
    /\ pc = "done"
    /\ Len(requests) = 3
    /\ requests[1][1] < requests[2][1]
    /\ requests[2][1] < requests[1][2]
    /\ requests[3][1] = requests[2][1]
    /\ requests[3][2] = audio_duration

====
